---- MODULE Spec2Model ----
(***************************************************************************)
(* Model of the index reconciliation job                                   *)
(* (faiss_helper/detect_missing_faiss_ids.py) and of the retrieval path    *)
(* (src/vectorstore/vectorstore.py, FAISSVectorStore).                     *)
(*                                                                         *)
(* Spec       : runs of the reconciliation job `main` against one index    *)
(*              artifact and one database, a process kill at any step, and *)
(*              a retrieval process loading the artifact at any moment.    *)
(* SpecRun    : one run of the job alone.                                  *)
(* SpecSearch : calls of FAISSVectorStore.search on a constructed store.   *)
(* SpecRepeat : calls of search repeated with one query vector and k.      *)
(* SpecStore  : FAISSVectorStore.__init__ and __del__.                     *)
(* SpecEmbed  : one POST /embed exchange with either embedding server.     *)
(* SpecHotSwap: a run of the job beside searches of a running instance.    *)
(* SpecOverlap: two processes running the job at the same time.            *)
(* SpecRetriever : callers sharing the retriever of a FAISSVectorStore.    *)
(* SpecLegacy : the legacy class VectorStore.                              *)
(***************************************************************************)
EXTENDS Integers, Sequences, FiniteSets, TLC

\* ------------------------------------------------------------------------
\* Bounds
\* ------------------------------------------------------------------------
MaxId == 2          \* chunk ids are 1..MaxId
MaxRows == 2        \* rows in the embedding_vectors table
MaxRuns == 2        \* consecutive runs of the reconciliation job

IndexDim == 2       \* d of the index artifact (768 in production)

Ids == 1..MaxId

\* ------------------------------------------------------------------------
\* Helpers
\* ------------------------------------------------------------------------
Range(s) == {s[i] : i \in DOMAIN s}

\* All orders in which a query without ORDER BY may return the rows `s`.
Perms(s) ==
  LET n == Len(s)
      bij == {f \in [1..n -> 1..n] : \A i, j \in 1..n : f[i] = f[j] => i = j}
  IN {[i \in 1..n |-> s[f[i]]] : f \in bij}

\* Sequences over S of length at most n.
SeqUpTo(S, n) == UNION {[1..m -> S] : m \in 0..n}

\* The ids of `S` in increasing order.
RECURSIVE SortedSeq(_)
SortedSeq(S) ==
  IF S = {} THEN <<>>
  ELSE LET m == CHOOSE x \in S : \A y \in S : x <= y
       IN <<m>> \o SortedSeq(S \ {m})

\* ------------------------------------------------------------------------
\* pgvector payloads and their parsing
\* ------------------------------------------------------------------------
\* An embedding column value as the driver hands it over: the pgvector text
\* form "[1,2]" (a sequence of characters) or an already decoded list.
StrEmbedding(text) == [type |-> "str", text |-> text, vals |-> <<>>]
ListEmbedding(vals) == [type |-> "list", text |-> <<>>, vals |-> vals]

EmbeddingList ==
  << StrEmbedding(<<"[", "1", ",", "2", "]">>),
     ListEmbedding(<<2, 1>>),
     StrEmbedding(<<"[", "1", ",", "2", ",", "3", "]">>) >>

EmbeddingValues == Range(EmbeddingList)

Digit(c) == CASE c = "0" -> 0 [] c = "1" -> 1 [] c = "2" -> 2 [] c = "3" -> 3

\* str.strip("[]"): drop every leading and trailing bracket character.
RECURSIVE LStrip(_)
LStrip(t) ==
  IF t # <<>> /\ Head(t) \in {"[", "]"} THEN LStrip(Tail(t)) ELSE t

RECURSIVE RStrip(_)
RStrip(t) ==
  IF t # <<>> /\ t[Len(t)] \in {"[", "]"}
  THEN RStrip(SubSeq(t, 1, Len(t) - 1)) ELSE t

\* np.fromstring(text, sep=","): the numbers between the separators.
RECURSIVE FromString(_)
FromString(t) ==
  IF t = <<>> THEN <<>>
  ELSE IF Head(t) = "," THEN FromString(Tail(t))
  ELSE <<Digit(Head(t))>> \o FromString(Tail(t))

parse_pgvector(embedding) ==
  IF embedding.type = "str"
  THEN FromString(RStrip(LStrip(embedding.text)))
  ELSE embedding.vals

\* ------------------------------------------------------------------------
\* The index (in memory and as artifact)
\* ------------------------------------------------------------------------
\* kind   : "IDMap" (faiss.IndexIDMap) or "Flat" (an index without id map)
\* d      : dimension
\* id_map : the ids, in insertion order (empty for "Flat")
\* xb     : the stored vectors, in insertion order
MkIndex(kind, d, id_map, xb) ==
  [kind |-> kind, d |-> d, id_map |-> id_map, xb |-> xb]

\* The vector the ingestion pipeline stored for chunk `id`.
IngestVec(id) == <<id, 0>>

\* The artifact file: `complete` is FALSE while a write is under way or was
\* cut short; the bytes of such a file are a proper prefix of an index.
MkFile(complete, index) == [complete |-> complete, index |-> index]

EmptyIndex == MkIndex("IDMap", IndexDim, <<>>, <<>>)
NoIndex == MkIndex("None", 0, <<>>, <<>>)

\* faiss.read_index: a truncated file cannot be deserialised.
ReadOk(f) == f.complete

\* faiss.IndexIDMap(index) at line 74.
WrapIDMap(index) ==
  IF index.kind = "IDMap" THEN index
  ELSE MkIndex("IDMap", index.d, <<>>, index.xb)

\* An add that rebuilds the index from the batch alone.
add_with_ids_rebuild(index, vectors, ids) ==
  MkIndex(index.kind, index.d, ids, vectors)

\* index.add_with_ids(vectors, ids): appends, keeps what was there.
add_with_ids(index, vectors, ids) ==
  MkIndex(index.kind, index.d, index.id_map \o ids, index.xb \o vectors)

\* ------------------------------------------------------------------------
\* Pure steps of the reconciliation job
\* ------------------------------------------------------------------------
\* The difference taken the other way round.
DiffIdsInverse(dbIds, faissIds) == faissIds \ dbIds

\* Line 27: missing_ids = db_ids - faiss_ids
DiffIds(dbIds, faissIds) == dbIds \ faissIds

\* A query that returns only the first matching row (fetchone for fetchall).
SelectVectorsFirstRow(table, missing) ==
  LET m == SelectSeq(table, LAMBDA r : r.chunk_id \in missing)
  IN IF m = <<>> THEN <<>> ELSE <<Head(m)>>

\* Lines 48-54: the rows of embedding_vectors for the missing ids.
SelectVectors(table, missing) ==
  SelectSeq(table, LAMBDA r : r.chunk_id \in missing)

\* Lines 79-80: the rows the loop of insert_missing_ids_to_faiss_db handles.
BatchRows(res, missing) ==
  SelectSeq(res, LAMBDA r : r.chunk_id \in missing)

\* A validation that looks at the last row of the batch only.
DimMismatchLastRow(res, missing, d) ==
  LET b == SelectSeq(res, LAMBDA r : r.chunk_id \in missing)
  IN b # <<>> /\ Len(parse_pgvector(b[Len(b)].embedding)) # d

\* Lines 82-83: the loop raises at the first row whose vector has not the
\* dimension of the index.
DimMismatch(res, missing, d) ==
  \E i \in DOMAIN BatchRows(res, missing) :
     Len(parse_pgvector(BatchRows(res, missing)[i].embedding)) # d

\* Lines 85-89: the batch handed to add_with_ids.
BatchVectors(res, missing) ==
  LET b == BatchRows(res, missing)
  IN [i \in DOMAIN b |-> parse_pgvector(b[i].embedding)]

BatchIds(res, missing) ==
  LET b == BatchRows(res, missing)
  IN [i \in DOMAIN b |-> b[i].chunk_id]

\* ------------------------------------------------------------------------
\* State
\* ------------------------------------------------------------------------
VARIABLES
  file,               \* the artifact at faiss_index_path
  db_ids,             \* ids of the embedding_chunks table
  embedding_vectors,  \* rows of the embedding_vectors table
  pc,                 \* position of main
  conn,               \* "none", "open", "closed"
  cursors,            \* number of cursors opened and not closed
  missing_ids,        \* main's local
  results,            \* main's local
  index,              \* the index built in insert_missing_ids_to_faiss_db
  inserted,           \* len(ids) of the batch added in this run
  outcome,            \* how the run ended
  run,                \* number of the current run
  fileAtStart,        \* the artifact when the current run started
  prev,               \* summary of the previous run
  readerObs,          \* what the last load by a retrieval process obtained
  spc,                \* position of FAISSVectorStore.search
  k,                  \* search's parameter k
  query_vec,          \* search's local query_vec
  scores,             \* search's local scores
  ids,                \* search's local ids
  documents,          \* what search returned
  sexc,               \* the exception search raised
  reply,              \* the embedding values search received
  posts,              \* requests this search call sent to the embedding server
  queries,            \* queries this search call sent to the metadata store
  sfail,              \* why the embedding request of this call failed
  earlier,            \* an earlier call of search on the same instance
  legacy,             \* a VectorStore object (the legacy class)
  lres,               \* the last call made on it and how it ended
  ncreate,            \* number of create_retriever calls made on it
  lastOk,             \* number of the last create_retriever call that returned
  retriever,          \* search_kwargs of the FAISSRetriever of a FAISSVectorStore
  callers,            \* per caller: what it passed to get_retriever, the k it got
  other,              \* a second process running main at the same time
  vs,                 \* a FAISSVectorStore object
  epc,                \* position of a POST /embed exchange
  eclient,            \* who sent the request
  ebody,              \* the JSON body of the request
  eserver,            \* the server implementation behind the URL
  embedded,           \* the texts the server handed to the tokenizer
  eresp,              \* the response of the server
  eresult             \* what the client made of the response

jobVars == <<file, db_ids, embedding_vectors, pc, conn, cursors, missing_ids,
             results, index, inserted, outcome, run, fileAtStart, prev>>

searchVars == <<spc, k, query_vec, scores, ids, documents, sexc, reply,
                posts, queries, sfail, earlier>>

storeVars == <<vs>>

embedVars == <<epc, eclient, ebody, eserver, embedded, eresp, eresult>>

legacyVars == <<legacy, lres, ncreate, lastOk>>

retrVars == <<retriever, callers>>

overlapVars == <<other>>

otherVars == <<legacyVars, retrVars, overlapVars>>

vars == <<file, db_ids, embedding_vectors, pc, conn, cursors, missing_ids,
          results, index, inserted, outcome, run, fileAtStart, prev,
          readerObs, spc, k, query_vec, scores, ids, documents, sexc,
          reply, posts, queries, sfail, earlier, legacy, lres, ncreate,
          lastOk, retriever, callers, other, vs, epc, eclient, ebody, eserver, embedded, eresp, eresult>>

Running == [kind |-> "running", exc |-> "", at |-> ""]
Ok == [kind |-> "ok", exc |-> "", at |-> "close"]
Raised(exc, at) == [kind |-> "raised", exc |-> exc, at |-> at]
Crashed(at) == [kind |-> "crashed", exc |-> "", at |-> at]

NoPrev == [kind |-> "none", inserted |-> 0, size |-> 0]
NoObs == [loaded |-> FALSE, ok |-> FALSE, index |-> NoIndex]

\* Exceptions caused by the environment (database or file system), not by
\* the data.
EnvExc == {"OperationalError", "ReadError", "WriteError"}

InitFiles ==
  {MkFile(TRUE, MkIndex("IDMap", IndexDim, SortedSeq(S),
                        [i \in 1..Cardinality(S) |-> IngestVec(SortedSeq(S)[i])])) :
     S \in SUBSET Ids}
  \cup
  {MkFile(TRUE, MkIndex("Flat", IndexDim, <<>>,
                        [i \in 1..n |-> IngestVec(i)])) : n \in 0..1}

VectorRows == [chunk_id : Ids, embedding : EmbeddingValues]

\* The embedding_vectors table is a bag of rows: the order in which a query
\* returns them is chosen at the query, so the table is kept in one order.
RowCode(r) ==
  (r.chunk_id - 1) * Len(EmbeddingList)
    + (CHOOSE e \in DOMAIN EmbeddingList : EmbeddingList[e] = r.embedding)

Tables ==
  {t \in SeqUpTo(VectorRows, MaxRows) :
     \A i \in 1..(Len(t) - 1) : RowCode(t[i]) <= RowCode(t[i + 1])}

\* A FAISSVectorStore object: `state` is "new" before __init__ ran, "ready"
\* after it returned, "failed" after it raised, "deleted" after __del__.
MkStore(state, exc, c, dim) ==
  [state |-> state, exc |-> exc, conn |-> c, embedding_dim |-> dim]

NoBody == [none |-> TRUE]
NoResponse == [status |-> 0, body |-> NoBody]
NoResult == [kind |-> "none", exc |-> "", vec |-> <<>>]

\* No earlier search call is remembered.
NoEarlier ==
  [set |-> FALSE, query_vec |-> <<>>, k |-> 0, ids |-> <<>>, scores |-> <<>>,
   documents |-> <<>>]

\* A search_kwargs argument: None, or a dict with or without the key "k"
\* (k = 0 stands for a dict without it).
KwNone == [kind |-> "None", k |-> 0]
KwDict(n) == [kind |-> "dict", k |-> n]

\* self.retriever = None
NoRetriever == [built_by |-> 0, search_kwargs |-> KwNone]

\* VectorStore.__init__ (lines 405-407): no vector store, no retriever.
NewVectorStore == [vectorstore |-> 0, retriever |-> NoRetriever]

NoCall ==
  [op |-> "none", kind |-> "none", exc |-> "", msg |-> "",
   value |-> NoRetriever]

\* A fresh legacy VectorStore object on which nothing was called.
LegacyIdle ==
  /\ legacy = NewVectorStore
  /\ lres = NoCall
  /\ ncreate = 0
  /\ lastOk = 0

\* The callers that share one FAISSVectorStore.
Callers == {"A", "B"}

\* A caller that has not asked for a retriever.
NoCaller == [has |-> FALSE, asked |-> KwNone, used |-> 0]

\* vectorstore.py line 90: the retriever made in __init__, with {"k": 4};
\* no caller holds it yet.
RetrieverIdle ==
  /\ retriever = KwDict(4)
  /\ callers = [c \in Callers |-> NoCaller]

\* The locals of a second process that has not started main.
OtherStart ==
  [pc |-> "start", missing_ids |-> {}, results |-> <<>>, index |-> NoIndex,
   exc |-> ""]

OthersIdle ==
  /\ LegacyIdle
  /\ RetrieverIdle
  /\ other = OtherStart

\* No store object is under construction.
StoreIdle == vs = MkStore("new", "", "none", IndexDim)

\* No POST /embed exchange is under way.
EmbedIdle ==
  /\ epc = "idle"
  /\ eclient = ""
  /\ ebody = NoBody
  /\ eserver = "embedding_server"
  /\ embedded = <<>>
  /\ eresp = NoResponse
  /\ eresult = NoResult

\* No search call is under way.
SearchIdle ==
  /\ spc = "idle"
  /\ k = 0
  /\ query_vec = <<>>
  /\ scores = <<>>
  /\ ids = <<>>
  /\ documents = <<>>
  /\ sexc = ""
  /\ reply = <<>>
  /\ posts = 0
  /\ queries = 0
  /\ sfail = ""
  /\ earlier = NoEarlier

Init ==
  /\ file \in InitFiles
  /\ db_ids \in SUBSET Ids
  /\ embedding_vectors \in Tables
  /\ pc = "start"
  /\ conn = "none"
  /\ cursors = 0
  /\ missing_ids = {}
  /\ results = <<>>
  /\ index = NoIndex
  /\ inserted = 0
  /\ outcome = Running
  /\ run = 1
  /\ fileAtStart = file
  /\ prev = NoPrev
  /\ readerObs = NoObs
  /\ SearchIdle
  /\ OthersIdle
  /\ StoreIdle
  /\ EmbedIdle

\* ------------------------------------------------------------------------
\* main, step by step
\* ------------------------------------------------------------------------
\* An exception handler around the steps of main that logs and goes on to
\* conn.close().
RaiseSwallowed(exc) ==
  /\ pc' = "close"
  /\ UNCHANGED outcome

\* Lines 97-108: main has no try block, an exception ends the run.
Raise(exc) ==
  /\ pc' = "raised"
  /\ outcome' = Raised(exc, pc)

\* Line 101: conn = connet_to_db(db_string)
connet_to_db ==
  /\ pc = "start"
  /\ \E up \in BOOLEAN :
       IF up
       THEN /\ conn' = "open"
            /\ pc' = "detect"
            /\ UNCHANGED outcome
       ELSE /\ Raise("OperationalError")
            /\ UNCHANGED conn
  /\ UNCHANGED searchVars
  /\ UNCHANGED storeVars
  /\ UNCHANGED embedVars
  /\ UNCHANGED otherVars
  /\ UNCHANGED <<file, db_ids, embedding_vectors, cursors, missing_ids,
                 results, index, inserted, run, fileAtStart, prev, readerObs>>

\* A main without the test of line 103: the vectors are fetched whatever
\* the diff is.
detect_then_always_fetch ==
  /\ pc = "detect"
  /\ IF ~ReadOk(file)
     THEN /\ Raise("ReadError")
          /\ UNCHANGED <<cursors, missing_ids>>
     ELSE IF file.index.kind # "IDMap"
     THEN /\ Raise("RuntimeError")
          /\ UNCHANGED <<cursors, missing_ids>>
     ELSE \E up \in BOOLEAN :
       IF up
       THEN /\ missing_ids' = DiffIds(db_ids, Range(file.index.id_map))
            /\ cursors' = cursors
            /\ pc' = "fetch"
            /\ UNCHANGED outcome
       ELSE /\ Raise("OperationalError")
            /\ cursors' = cursors + 1
            /\ UNCHANGED missing_ids
  /\ UNCHANGED searchVars
  /\ UNCHANGED storeVars
  /\ UNCHANGED embedVars
  /\ UNCHANGED otherVars
  /\ UNCHANGED <<file, db_ids, embedding_vectors, conn, results, index,
                 inserted, run, fileAtStart, prev, readerObs>>

\* Lines 10-42 and the test of line 103.
detect_missing_faiss_ids ==
  /\ pc = "detect"
  /\ IF ~ReadOk(file)
     THEN /\ Raise("ReadError")
          /\ UNCHANGED <<cursors, missing_ids>>
     ELSE IF file.index.kind # "IDMap"
     THEN /\ Raise("RuntimeError")
          /\ UNCHANGED <<cursors, missing_ids>>
     ELSE \E up \in BOOLEAN :
       IF up
       THEN /\ missing_ids' = DiffIds(db_ids, Range(file.index.id_map))
            /\ cursors' = cursors
            /\ pc' = IF missing_ids' # {} THEN "fetch" ELSE "close"
            /\ UNCHANGED outcome
       ELSE /\ Raise("OperationalError")
            /\ cursors' = cursors + 1
            /\ UNCHANGED missing_ids
  /\ UNCHANGED searchVars
  /\ UNCHANGED storeVars
  /\ UNCHANGED embedVars
  /\ UNCHANGED otherVars
  /\ UNCHANGED <<file, db_ids, embedding_vectors, conn, results, index,
                 inserted, run, fileAtStart, prev, readerObs>>

\* Lines 45-56.
get_vectors_for_ids ==
  /\ pc = "fetch"
  /\ \E up \in BOOLEAN :
       IF up
       THEN /\ results' \in Perms(SelectVectors(embedding_vectors, missing_ids))
            /\ pc' = "print"
            /\ UNCHANGED <<cursors, outcome>>
       ELSE /\ Raise("OperationalError")
            /\ cursors' = cursors + 1
            /\ UNCHANGED results
  /\ UNCHANGED searchVars
  /\ UNCHANGED storeVars
  /\ UNCHANGED embedVars
  /\ UNCHANGED otherVars
  /\ UNCHANGED <<file, db_ids, embedding_vectors, conn, missing_ids, index,
                 inserted, run, fileAtStart, prev, readerObs>>

\* A main without the print of line 105.
print_nothing ==
  /\ pc = "print"
  /\ pc' = "insert"
  /\ UNCHANGED outcome
  /\ UNCHANGED searchVars
  /\ UNCHANGED storeVars
  /\ UNCHANGED embedVars
  /\ UNCHANGED otherVars
  /\ UNCHANGED <<file, db_ids, embedding_vectors, conn, cursors, missing_ids,
                 results, index, inserted, run, fileAtStart, prev, readerObs>>

\* Line 105: print(results[0][0], type(results[0][1]))
print_first_result ==
  /\ pc = "print"
  /\ IF results = <<>>
     THEN Raise("IndexError")
     ELSE /\ pc' = "insert"
          /\ UNCHANGED outcome
  /\ UNCHANGED searchVars
  /\ UNCHANGED storeVars
  /\ UNCHANGED embedVars
  /\ UNCHANGED otherVars
  /\ UNCHANGED <<file, db_ids, embedding_vectors, conn, cursors, missing_ids,
                 results, index, inserted, run, fileAtStart, prev, readerObs>>

\* Lines 69-91: load, validate every row, one add_with_ids.
insert_build ==
  /\ pc = "insert"
  /\ IF ~ReadOk(file)
     THEN /\ Raise("ReadError")
          /\ UNCHANGED <<index, inserted>>
     ELSE LET loaded == WrapIDMap(file.index)
          IN IF DimMismatch(results, missing_ids, loaded.d)
             THEN /\ Raise("ValueError")
                  /\ UNCHANGED <<index, inserted>>
             ELSE /\ index' = add_with_ids(loaded,
                                           BatchVectors(results, missing_ids),
                                           BatchIds(results, missing_ids))
                  /\ inserted' = Len(BatchIds(results, missing_ids))
                  /\ pc' = "write"
                  /\ UNCHANGED outcome
  /\ UNCHANGED searchVars
  /\ UNCHANGED storeVars
  /\ UNCHANGED embedVars
  /\ UNCHANGED otherVars
  /\ UNCHANGED <<file, db_ids, embedding_vectors, conn, cursors, missing_ids,
                 results, run, fileAtStart, prev, readerObs>>

\* Line 93, first half: faiss.write_index opens faiss_index_path for writing,
\* which truncates the file that is there.
write_index_open ==
  /\ pc = "write"
  /\ file' = MkFile(FALSE, EmptyIndex)
  /\ pc' = "writing"
  /\ UNCHANGED searchVars
  /\ UNCHANGED storeVars
  /\ UNCHANGED embedVars
  /\ UNCHANGED otherVars
  /\ UNCHANGED <<db_ids, embedding_vectors, conn, cursors, missing_ids,
                 results, index, inserted, outcome, run, fileAtStart, prev,
                 readerObs>>

\* A write_index that also puts the new index into the memory of the
\* retrieval process.
write_index_finish_hot_swap ==
  /\ pc = "writing"
  /\ \E done \in BOOLEAN :
       IF done
       THEN /\ file' = MkFile(TRUE, index)
            /\ readerObs' = [readerObs EXCEPT !.index = index]
            /\ pc' = "close"
            /\ UNCHANGED outcome
       ELSE /\ Raise("WriteError")
            /\ UNCHANGED <<file, readerObs>>
  /\ UNCHANGED searchVars
  /\ UNCHANGED storeVars
  /\ UNCHANGED embedVars
  /\ UNCHANGED otherVars
  /\ UNCHANGED <<db_ids, embedding_vectors, conn, cursors, missing_ids,
                 results, index, inserted, run, fileAtStart, prev>>

\* Line 93, second half: the bytes are written and the file closed, or the
\* write fails (disk full) and leaves the truncated file.
write_index_finish ==
  /\ pc = "writing"
  /\ \E done \in BOOLEAN :
       IF done
       THEN /\ file' = MkFile(TRUE, index)
            /\ pc' = "close"
            /\ UNCHANGED outcome
       ELSE /\ Raise("WriteError")
            /\ UNCHANGED file
  /\ UNCHANGED searchVars
  /\ UNCHANGED storeVars
  /\ UNCHANGED embedVars
  /\ UNCHANGED otherVars
  /\ UNCHANGED <<db_ids, embedding_vectors, conn, cursors, missing_ids,
                 results, index, inserted, run, fileAtStart, prev, readerObs>>

\* Line 108: conn.close()
close_conn ==
  /\ pc = "close"
  /\ conn' = "closed"
  /\ pc' = "done"
  /\ outcome' = Ok
  /\ UNCHANGED searchVars
  /\ UNCHANGED storeVars
  /\ UNCHANGED embedVars
  /\ UNCHANGED otherVars
  /\ UNCHANGED <<file, db_ids, embedding_vectors, cursors, missing_ids,
                 results, index, inserted, run, fileAtStart, prev, readerObs>>

\* The process is killed (signal, power loss) between two steps.
Kill ==
  /\ pc \notin {"done", "raised", "crashed"}
  /\ pc' = "crashed"
  /\ outcome' = Crashed(pc)
  /\ UNCHANGED searchVars
  /\ UNCHANGED storeVars
  /\ UNCHANGED embedVars
  /\ UNCHANGED otherVars
  /\ UNCHANGED <<file, db_ids, embedding_vectors, conn, cursors, missing_ids,
                 results, index, inserted, run, fileAtStart, prev, readerObs>>

\* Lines 112-113: the job is started again, on the same artifact and store.
main ==
  /\ pc \in {"done", "raised", "crashed"}
  /\ run < MaxRuns
  /\ run' = run + 1
  /\ prev' = [kind |-> outcome.kind, inserted |-> inserted,
              size |-> Len(file.index.id_map)]
  /\ fileAtStart' = file
  /\ pc' = "start"
  /\ conn' = "none"
  /\ cursors' = 0
  /\ missing_ids' = {}
  /\ results' = <<>>
  /\ index' = NoIndex
  /\ inserted' = 0
  /\ outcome' = Running
  /\ UNCHANGED searchVars
  /\ UNCHANGED storeVars
  /\ UNCHANGED embedVars
  /\ UNCHANGED otherVars
  /\ UNCHANGED <<file, db_ids, embedding_vectors, readerObs>>

\* vectorstore.py lines 75-76: a retrieval process loads the artifact.
reader_load ==
  /\ readerObs' = IF ReadOk(file)
                  THEN [loaded |-> TRUE, ok |-> TRUE, index |-> file.index]
                  ELSE [loaded |-> TRUE, ok |-> FALSE, index |-> NoIndex]
  /\ readerObs' # readerObs
  /\ UNCHANGED searchVars
  /\ UNCHANGED storeVars
  /\ UNCHANGED embedVars
  /\ UNCHANGED otherVars
  /\ UNCHANGED <<file, db_ids, embedding_vectors, pc, conn, cursors,
                 missing_ids, results, index, inserted, outcome, run,
                 fileAtStart, prev>>

Next ==
  \/ connet_to_db
  \/ detect_missing_faiss_ids
  \/ get_vectors_for_ids
  \/ print_first_result
  \/ insert_build
  \/ write_index_open
  \/ write_index_finish
  \/ close_conn
  \/ Kill
  \/ main
  \/ reader_load

Spec == Init /\ [][Next]_vars

\* One run of main, which may be killed, with nothing beside it.
NextRun ==
  \/ connet_to_db
  \/ detect_missing_faiss_ids
  \/ get_vectors_for_ids
  \/ print_first_result
  \/ insert_build
  \/ write_index_open
  \/ write_index_finish
  \/ close_conn
  \/ Kill

SpecRun == Init /\ [][NextRun]_vars

\* ------------------------------------------------------------------------
\* Properties of the reconciliation job
\* ------------------------------------------------------------------------
IndexIds(f) == Range(f.index.id_map)

\* The ids the store has and the artifact had not when the run started.
MissingAtStart == db_ids \ IndexIds(fileAtStart)

\* insert_missing_ids_to_faiss_db has run its validation loop in this run.
InsertActed ==
  \/ pc \in {"write", "writing", "close", "done"}
  \/ pc = "raised" /\ outcome.at \in {"insert", "writing"}
  \/ pc = "crashed" /\ outcome.at \in {"write", "writing", "close"}

\* C1: after a run that completes without raising, every id of the
\* embedding_chunks table is an id of the persisted index.
C1_SupersetAfterRun ==
  outcome.kind = "ok" => db_ids \subseteq IndexIds(file)

\* C2: when a run is interrupted (killed, or ended by an exception), the
\* artifact is a complete index: the one from before the run or the new one.
C2_CrashSafePersist ==
  (outcome.kind \in {"crashed", "raised"} /\ fileAtStart.complete)
    => /\ file.complete
       /\ file = fileAtStart \/ file.index = index

\* C3: a load of the artifact made while a run is executing obtains the
\* complete old index or the complete new index.
C3_ReaderIsolation ==
  [][(readerObs' # readerObs /\ outcome.kind = "running"
        /\ fileAtStart.complete)
       => /\ readerObs'.ok
          /\ readerObs'.index \in {fileAtStart.index, index}]_vars

\* C4: a second run right after a run that completed, with the store
\* unchanged, completes without error, inserts nothing and leaves the size
\* of the index id set as it was (failures of the database or the file
\* system aside).
C4_SecondRunIdle ==
  (run >= 2 /\ prev.kind = "ok" /\ outcome.kind \in {"ok", "raised"}
     /\ outcome.exc \notin EnvExc)
    => /\ outcome.kind = "ok"
       /\ inserted = 0
       /\ Len(file.index.id_map) = prev.size

\* Some row fetched for a missing id has a vector whose length is not the
\* dimension of the index.
HasBadVector ==
  \E i \in DOMAIN results :
     /\ results[i].chunk_id \in missing_ids
     /\ Len(parse_pgvector(results[i].embedding)) # fileAtStart.index.d

\* C5: when a vector fetched for a missing id has not the dimension of the
\* index, insert_missing_ids_to_faiss_db raises ValueError before
\* add_with_ids and before write_index: nothing was added, the artifact is
\* the one from before the run.
C5_AllOrNothingValidation ==
  (InsertActed /\ HasBadVector)
    => /\ outcome = Raised("ValueError", "insert")
       /\ index = NoIndex
       /\ inserted = 0
       /\ file = fileAtStart

\* A run refused a batch whose first row was valid and whose second was not.
C5_Witness ==
  /\ outcome = Raised("ValueError", "insert")
  /\ Len(results) >= 2
  /\ Len(parse_pgvector(results[1].embedding)) = fileAtStart.index.d
  /\ Len(parse_pgvector(results[2].embedding)) # fileAtStart.index.d
  /\ results[1].chunk_id # results[2].chunk_id

\* Every missing id has exactly one row in embedding_vectors, with a vector
\* of the dimension of the index.
BackfillPre ==
  \A id \in MissingAtStart :
     /\ Cardinality({i \in DOMAIN embedding_vectors :
                       embedding_vectors[i].chunk_id = id}) = 1
     /\ \A i \in DOMAIN embedding_vectors :
          embedding_vectors[i].chunk_id = id
            => Len(parse_pgvector(embedding_vectors[i].embedding))
                 = fileAtStart.index.d

\* C10: when every missing id has exactly one vector row of the right
\* dimension, a run that completes leaves the persisted id set equal to the
\* previous id set united with the missing ids and inserted as many vectors
\* as ids were missing; such a run is not ended by IndexError or ValueError.
C10_BackfillResult ==
  BackfillPre
    => /\ outcome.kind = "ok"
            => /\ IndexIds(file) = IndexIds(fileAtStart) \cup MissingAtStart
               /\ inserted = Cardinality(MissingAtStart)
       /\ outcome.exc \notin {"IndexError", "ValueError"}

\* A completed run that added the missing id to an index that had another.
C10_Witness ==
  /\ outcome.kind = "ok"
  /\ BackfillPre
  /\ MissingAtStart # {}
  /\ IndexIds(fileAtStart) # {}
  /\ inserted = Cardinality(MissingAtStart)
  /\ Len(file.index.id_map) = Len(fileAtStart.index.id_map) + inserted

\* No id occurs twice in the id map `m`.
UniqueIds(m) == \A i, j \in DOMAIN m : m[i] = m[j] => i = j

\* C11: each id occurs at most once in every persisted index, the index
\* having had unique ids before the first run.
C11_IdsUnique ==
  file.complete => UniqueIds(file.index.id_map)

\* detect_missing_faiss_ids has returned in this run.
DetectActed ==
  \/ pc \in {"fetch", "print", "insert", "write", "writing", "close", "done"}
  \/ /\ pc \in {"raised", "crashed"}
     /\ outcome.at \in {"fetch", "print", "insert", "write", "writing",
                        "close"}

\* C12: detect_missing_faiss_ids returns exactly the ids that are in the
\* embedding_chunks table and not in the id map of the index: no id of the
\* index, no id that is only in the index.
C12_DiffDirection ==
  DetectActed
    => /\ \A id \in db_ids \cup IndexIds(fileAtStart) :
            id \in missing_ids
              <=> (id \in db_ids /\ id \notin IndexIds(fileAtStart))
       /\ missing_ids \subseteq db_ids
       /\ missing_ids \cap IndexIds(fileAtStart) = {}

\* The diff of a run whose index held an id the store has not, and whose
\* store held an id the index had not.
C12_Witness ==
  /\ DetectActed
  /\ missing_ids # {}
  /\ IndexIds(fileAtStart) \ db_ids # {}

\* The entries of index `a` are the first entries of index `b`.
EntriesKept(a, b) ==
  /\ Len(a.id_map) <= Len(b.id_map)
  /\ Len(a.xb) <= Len(b.xb)
  /\ SubSeq(b.id_map, 1, Len(a.id_map)) = a.id_map
  /\ SubSeq(b.xb, 1, Len(a.xb)) = a.xb

C14_ExitStatus ==
  /\ pc = "done" <=> outcome.kind = "ok"
  /\ pc = "raised" <=> outcome.kind = "raised"
  /\ outcome.kind = "ok"
       => /\ fileAtStart.complete
          /\ fileAtStart.index.kind = "IDMap"
          /\ missing_ids = MissingAtStart
          /\ missing_ids = {} => file = fileAtStart /\ inserted = 0
          /\ missing_ids # {}
               => /\ results # <<>>
                  /\ ~HasBadVector
                  /\ file = MkFile(TRUE, index)
                  /\ Len(index.id_map)
                       = Len(fileAtStart.index.id_map) + Len(results)
  /\ outcome.kind = "raised"
       => outcome.exc \in EnvExc \cup {"RuntimeError", "IndexError",
                                       "ValueError"}

\* A run ended by the exception of a failed query for the vectors, the
\* artifact not written.
C14_Witness ==
  /\ outcome = Raised("OperationalError", "fetch")
  /\ pc = "raised"
  /\ missing_ids # {}
  /\ file = fileAtStart

\* The step the run is at, or was at when it ended.
Where == IF pc \in {"raised", "crashed"} THEN outcome.at ELSE pc

\* What holds at each step of a run, given the steps before it.
StepInv ==
  /\ Where \in {"fetch", "print", "insert", "write", "writing", "close",
                 "done"}
       => /\ conn # "none"
          /\ fileAtStart.complete
          /\ fileAtStart.index.kind = "IDMap"
          /\ missing_ids = db_ids \ IndexIds(fileAtStart)
  /\ Where \in {"fetch", "print", "insert", "write", "writing"}
       => missing_ids # {}
  /\ Where \in {"start", "detect", "fetch"} => results = <<>>
  /\ Where \in {"start", "detect", "fetch", "print", "insert"}
       => /\ index = NoIndex
          /\ file = fileAtStart
  /\ (Where \in {"close", "done"} /\ missing_ids = {})
       => /\ results = <<>>
          /\ index = NoIndex
          /\ inserted = 0
          /\ file = fileAtStart
  /\ (Where \in {"write", "writing"} \/ file # fileAtStart)
       => /\ results # <<>>
          /\ ~HasBadVector
          /\ index.id_map = fileAtStart.index.id_map
                              \o BatchIds(results, missing_ids)

\* The steps a run may take from one position to the next.
StepRel ==
  /\ pc' # pc
       => \/ pc' \in {"raised", "crashed"}
          \/ pc' = "start" /\ pc \in {"done", "raised", "crashed"}
          \/ pc = "start" /\ pc' = "detect"
          \/ pc = "detect" /\ pc' = "fetch" /\ missing_ids' # {}
          \/ pc = "detect" /\ pc' = "close" /\ missing_ids' = {}
          \/ pc = "fetch" /\ pc' = "print"
          \/ pc = "print" /\ pc' = "insert"
          \/ pc = "insert" /\ pc' = "write" /\ ~HasBadVector
          \/ pc = "write" /\ pc' = "writing"
          \/ pc = "writing" /\ pc' = "close"
          \/ pc = "close" /\ pc' = "done"
  /\ file' # file
       => /\ pc \in {"write", "writing"}
          /\ missing_ids # {}
          /\ ~HasBadVector

\* C24: in every run the index is loaded and the store ids are read before
\* the diff; with an empty diff the run goes to its end without fetching
\* vectors, adding to the index or writing the artifact; with a non-empty
\* diff the steps are fetch, validate, insert, persist in this order, and
\* the artifact is written only after every fetched vector passed the
\* validation.
C24_StepOrder ==
  /\ []StepInv
  /\ [][StepRel]_vars

\* A run with a non-empty diff went through every step and wrote the
\* artifact.
C24_Witness ==
  /\ pc = "done"
  /\ missing_ids # {}
  /\ inserted >= 1
  /\ file # fileAtStart
  /\ file = MkFile(TRUE, index)

\* The diff of this run is not empty and embedding_vectors has no row for
\* any id of it.
NoVectorRows ==
  /\ missing_ids # {}
  /\ \A i \in DOMAIN embedding_vectors :
       embedding_vectors[i].chunk_id \notin missing_ids

\* C29: when the diff is not empty and embedding_vectors has no row for any
\* missing id, the run does not get past line 105: it ends there with an
\* error, insert_missing_ids_to_faiss_db is not called, nothing is added
\* and the artifact is the one from before the run.
C29_NoVectorsAbort ==
  (NoVectorRows /\ Where \notin {"start", "detect", "fetch"})
    => /\ Where = "print"
       /\ pc = "raised" => outcome = Raised("IndexError", "print")
       /\ index = NoIndex
       /\ inserted = 0
       /\ file = fileAtStart

\* A run ended by IndexError: the table has rows, none for a missing id.
C29_Witness ==
  /\ NoVectorRows
  /\ embedding_vectors # <<>>
  /\ outcome = Raised("IndexError", "print")
  /\ file = fileAtStart

\* C20: on every exit of main, by return or by exception, the connection
\* that connet_to_db opened is closed and so is every cursor.
C20_ConnectionReleased ==
  outcome.kind \in {"ok", "raised"}
    => /\ conn \in {"none", "closed"}
       /\ cursors = 0

\* ------------------------------------------------------------------------
\* FAISSVectorStore.search
\* ------------------------------------------------------------------------
MaxK == 3           \* largest k a caller asks for
MaxIndexLen == 2    \* vectors in the index a store instance holds

NoScore == 0 - 1000 \* the score faiss reports for an unfilled position

\* Vectors are axis-aligned, so that norms and inner products are integers.
Abs(x) == IF x < 0 THEN 0 - x ELSE x

RECURSIVE SumAbs(_)
SumAbs(v) == IF v = <<>> THEN 0 ELSE Abs(Head(v)) + SumAbs(Tail(v))

\* The L2 norm of an axis-aligned vector.
Norm(v) == SumAbs(v)

\* faiss.normalize_L2 (line 135); a zero vector is left as it is.
normalize_L2(v) ==
  IF Norm(v) = 0 THEN v ELSE [i \in DOMAIN v |-> v[i] \div Norm(v)]

RECURSIVE Dot(_, _)
Dot(u, v) ==
  IF u = <<>> \/ v = <<>> THEN 0
  ELSE Head(u) * Head(v) + Dot(Tail(u), Tail(v))

\* The id under which an index reports its i-th vector.
IdAt(idx, i) == IF idx.kind = "IDMap" THEN idx.id_map[i] ELSE i - 1

\* index.search(query_vec, k) at line 243: the k best positions by inner
\* product, best first, equal scores in insertion order; positions the
\* index cannot fill carry id -1.
RECURSIVE Ranked(_, _, _, _)
Ranked(idx, q, S, n) ==
  IF n = 0 THEN <<>>
  ELSE IF S = {}
  THEN <<[id |-> 0 - 1, score |-> NoScore]>> \o Ranked(idx, q, S, n - 1)
  ELSE LET b == CHOOSE i \in S :
                  \A j \in S : \/ Dot(q, idx.xb[i]) > Dot(q, idx.xb[j])
                               \/ /\ Dot(q, idx.xb[i]) = Dot(q, idx.xb[j])
                                  /\ i <= j
       IN <<[id |-> IdAt(idx, b), score |-> Dot(q, idx.xb[b])]>>
            \o Ranked(idx, q, S \ {b}, n - 1)

\* An index search that reports every vector it holds, whatever n is.
IndexSearchNoLimit(idx, q, n) == Ranked(idx, q, DOMAIN idx.xb, Len(idx.xb))

IndexSearch(idx, q, n) == Ranked(idx, q, DOMAIN idx.xb, n)

\* A row of embedding_chunks joined with research_papers (lines 164-177).
ChunkRow(id) == [id |-> id, chunk_text |-> id + 100]

\* The rows the query of lines 163-177 matches, in some order.
MatchingRows(chunk_ids, chunkIds) ==
  LET m == SortedSeq(Range(chunk_ids) \cap chunkIds)
  IN [i \in DOMAIN m |-> ChunkRow(m[i])]

\* Lines 185-197: chunks_dict.
ChunksDict(rows) ==
  [id \in {rows[i].id : i \in DOMAIN rows} |->
     LET last == CHOOSE i \in DOMAIN rows :
                   /\ rows[i].id = id
                   /\ \A j \in DOMAIN rows : rows[j].id = id => j <= i
     IN rows[last]]

\* A fetch that hands the rows back in the order the database returned them.
FetchInRowOrder(chunk_ids, rows) ==
  [exc |-> "", chunks |-> rows]

\* A fetch that keeps a place for an id without a row.
FetchKeepMissing(chunk_ids, rows) ==
  [exc |-> "",
   chunks |-> [i \in DOMAIN chunk_ids |->
                 IF chunk_ids[i] \in DOMAIN ChunksDict(rows)
                 THEN ChunksDict(rows)[chunk_ids[i]]
                 ELSE [id |-> chunk_ids[i], chunk_text |-> 0]]]

\* A fetch that looks every id up without testing that it is there.
FetchNoMembershipTest(chunk_ids, rows) ==
  IF \E i \in DOMAIN chunk_ids : chunk_ids[i] \notin DOMAIN ChunksDict(rows)
  THEN [exc |-> "KeyError", chunks |-> <<>>]
  ELSE [exc |-> "",
        chunks |-> [i \in DOMAIN chunk_ids |-> ChunksDict(rows)[chunk_ids[i]]]]

\* Lines 199-212: the chunks in the order of chunk_ids, ids without a row
\* left out; an exception raised in the block would be re-raised.
FetchChunksByIds(chunk_ids, rows) ==
  LET d == ChunksDict(rows)
      found == SelectSeq(chunk_ids, LAMBDA c : c \in DOMAIN d)
  IN [exc |-> "", chunks |-> [i \in DOMAIN found |-> d[found[i]]]]

\* Lines 278-294: one Document per chunk, the i-th with scores[i].
BuildDocuments(chunks_data, sc) ==
  [i \in DOMAIN chunks_data |->
     [chunk_id |-> chunks_data[i].id,
      page_content |-> chunks_data[i].chunk_text,
      similarity_score |-> IF i <= Len(sc) THEN sc[i] ELSE 0]]

\* What the embedding server may answer with (responses[0].embedding.values).
EmbeddingReplies == {<<2, 0>>, <<0, 1>>, <<0 - 3, 0>>, <<1>>}

UnitVecs == {<<1, 0>>, <<0, 1>>, <<0 - 1, 0>>}

\* The indexes a store instance may hold after construction.
LoadedIndexes ==
  UNION {{MkIndex("IDMap", IndexDim, im, xb) :
            im \in [1..n -> Ids], xb \in [1..n -> UnitVecs]} :
         n \in 0..MaxIndexLen}

InitSearch ==
  /\ readerObs \in {[loaded |-> TRUE, ok |-> TRUE, index |-> ix] :
                      ix \in LoadedIndexes}
  /\ db_ids \in SUBSET Ids
  /\ file = MkFile(TRUE, readerObs.index)
  /\ embedding_vectors = <<>>
  /\ pc = "start"
  /\ conn = "none"
  /\ cursors = 0
  /\ missing_ids = {}
  /\ results = <<>>
  /\ index = NoIndex
  /\ inserted = 0
  /\ outcome = Running
  /\ run = 1
  /\ fileAtStart = file
  /\ prev = NoPrev
  /\ SearchIdle
  /\ OthersIdle
  /\ vs = MkStore("ready", "", "open", IndexDim)
  /\ EmbedIdle

\* A search that logs the exception and goes on with what it has.
SearchRaiseSwallowed(exc) ==
  /\ spc' = "embedded"
  /\ UNCHANGED sexc

SearchRaise(exc) ==
  /\ spc' = "raised"
  /\ sexc' = exc

\* The ways the request of lines 122-129 fails: requests.post raises (123),
\* raise_for_status raises on a 4xx or 5xx status (124), or the JSON has no
\* "responses" (128-129).
EmbedFailures == {"ConnectionError", "Timeout", "HTTPError", "ValueError"}

\* Lines 230-231 (and 115-142): one POST to the embedding server; whatever
\* is raised in lines 122-138 is logged and raised again (140-142).
search_embed ==
  /\ spc = "idle"
  /\ \E kk \in 0..MaxK, up \in BOOLEAN, r \in EmbeddingReplies :
       /\ k' = kk
       /\ posts' = posts + 1
       /\ IF up
          THEN /\ reply' = r
               /\ query_vec' = normalize_L2(r)
               /\ spc' = "embedded"
               /\ UNCHANGED <<sexc, sfail>>
          ELSE /\ SearchRaise("EmbeddingError")
               /\ sfail' \in EmbedFailures
               /\ UNCHANGED <<query_vec, reply>>
  /\ UNCHANGED <<scores, ids, documents, queries, earlier>>
  /\ UNCHANGED jobVars
  /\ UNCHANGED storeVars
  /\ UNCHANGED embedVars
  /\ UNCHANGED otherVars
  /\ UNCHANGED readerObs

\* An index search that forgets the last vector of the index once it has
\* answered.
search_index_consuming ==
  /\ spc = "embedded"
  /\ IF Len(query_vec) # readerObs.index.d
     THEN /\ SearchRaise("AssertionError")
          /\ UNCHANGED <<scores, ids, readerObs>>
     ELSE LET hits == IndexSearch(readerObs.index, query_vec, k)
              n == Len(readerObs.index.xb)
          IN /\ scores' = [i \in DOMAIN hits |-> hits[i].score]
             /\ ids' = [i \in DOMAIN hits |-> hits[i].id]
             /\ spc' = "searched"
             /\ readerObs' =
                  [readerObs EXCEPT
                     !.index.xb = SubSeq(@, 1, n - 1),
                     !.index.id_map = SubSeq(@, 1, Len(@) - 1)]
             /\ UNCHANGED sexc
  /\ UNCHANGED <<k, query_vec, documents, reply, posts, queries, sfail,
                 earlier>>
  /\ UNCHANGED jobVars
  /\ UNCHANGED storeVars
  /\ UNCHANGED embedVars
  /\ UNCHANGED otherVars

\* Lines 243-245: scores, ids = self.index.search(query_vec, k). A query
\* of another dimension than the index fails an assertion of faiss; k = 0
\* fails one too or gives empty lists, depending on the faiss release.
search_index ==
  /\ spc = "embedded"
  /\ \E strict \in IF k = 0 THEN BOOLEAN ELSE {FALSE} :
       IF Len(query_vec) # readerObs.index.d \/ strict
       THEN /\ SearchRaise("AssertionError")
            /\ UNCHANGED <<scores, ids>>
       ELSE LET hits == IndexSearch(readerObs.index, query_vec, k)
            IN /\ scores' = [i \in DOMAIN hits |-> hits[i].score]
               /\ ids' = [i \in DOMAIN hits |-> hits[i].id]
               /\ spc' = "searched"
               /\ UNCHANGED sexc
  /\ UNCHANGED <<k, query_vec, documents, reply, posts, queries, sfail,
                 earlier>>
  /\ UNCHANGED jobVars
  /\ UNCHANGED storeVars
  /\ UNCHANGED embedVars
  /\ UNCHANGED otherVars
  /\ UNCHANGED readerObs

\* A fetch that sends one query per id.
FetchQueriesPerId(chunk_ids) == Len(chunk_ids)

\* Lines 158-182: the number of queries _fetch_chunks_by_ids sends for a
\* list of ids: none for an empty list, else one with ANY(chunk_ids).
FetchQueries(chunk_ids) == IF chunk_ids = <<>> THEN 0 ELSE 1

\* Lines 274-324: the metadata query, the documents, the return.
search_fetch ==
  /\ spc = "searched"
  /\ queries' = queries + FetchQueries(ids)
  /\ \E up \in BOOLEAN :
       IF ids # <<>> /\ ~up
       THEN /\ SearchRaise("OperationalError")
            /\ UNCHANGED documents
       ELSE \E rows \in Perms(MatchingRows(ids, db_ids)) :
              LET f == IF ids = <<>>
                       THEN [exc |-> "", chunks |-> <<>>]
                       ELSE FetchChunksByIds(ids, rows)
              IN IF f.exc # ""
                 THEN /\ SearchRaise(f.exc)
                      /\ UNCHANGED documents
                 ELSE /\ documents' = BuildDocuments(f.chunks, scores)
                      /\ spc' = "returned"
                      /\ UNCHANGED sexc
  /\ UNCHANGED <<k, query_vec, scores, ids, reply, posts, sfail, earlier>>
  /\ UNCHANGED jobVars
  /\ UNCHANGED storeVars
  /\ UNCHANGED embedVars
  /\ UNCHANGED otherVars
  /\ UNCHANGED readerObs

\* The caller has its answer; the store is ready for the next call.
search_done ==
  /\ spc \in {"returned", "raised"}
  /\ spc' = "idle"
  /\ k' = 0
  /\ query_vec' = <<>>
  /\ scores' = <<>>
  /\ ids' = <<>>
  /\ documents' = <<>>
  /\ sexc' = ""
  /\ reply' = <<>>
  /\ posts' = 0
  /\ queries' = 0
  /\ sfail' = ""
  /\ UNCHANGED earlier
  /\ UNCHANGED jobVars
  /\ UNCHANGED storeVars
  /\ UNCHANGED embedVars
  /\ UNCHANGED otherVars
  /\ UNCHANGED readerObs

NextSearch ==
  \/ search_embed
  \/ search_index
  \/ search_fetch
  \/ search_done

SpecSearch == InitSearch /\ [][NextSearch]_vars

\* ------------------------------------------------------------------------
\* Repeated calls of FAISSVectorStore.search with one query
\* ------------------------------------------------------------------------
\* A call of search with the k and the query text of the remembered call,
\* for which the embedding server answers with the same vector.
search_embed_same ==
  /\ search_embed
  /\ earlier.set
       => /\ k' = earlier.k
          /\ spc' = "embedded" => query_vec' = earlier.query_vec

\* The caller has its answer; the first answer returned is remembered.
search_done_remember ==
  /\ spc \in {"returned", "raised"}
  /\ earlier' = IF ~earlier.set /\ spc = "returned"
                THEN [set |-> TRUE, query_vec |-> query_vec, k |-> k,
                      ids |-> ids, scores |-> scores,
                      documents |-> documents]
                ELSE earlier
  /\ spc' = "idle"
  /\ k' = 0
  /\ query_vec' = <<>>
  /\ scores' = <<>>
  /\ ids' = <<>>
  /\ documents' = <<>>
  /\ sexc' = ""
  /\ reply' = <<>>
  /\ posts' = 0
  /\ queries' = 0
  /\ sfail' = ""
  /\ UNCHANGED jobVars
  /\ UNCHANGED storeVars
  /\ UNCHANGED embedVars
  /\ UNCHANGED otherVars
  /\ UNCHANGED readerObs

NextRepeat ==
  \/ search_embed_same
  \/ search_index
  \/ search_fetch
  \/ search_done_remember

\* The metadata stores the repeated calls run against: one with a row for
\* every id, one with a row for id 1 only.
RepeatStores == {Ids, {1}}

InitRepeat ==
  /\ InitSearch
  /\ db_ids \in RepeatStores

SpecRepeat == InitRepeat /\ [][NextRepeat]_vars

\* A later call has the query vector and the k of the remembered call.
SameCall ==
  /\ earlier.set
  /\ earlier.k = k
  /\ earlier.query_vec = query_vec

\* In a later call with the same query vector and k, the index search gave
\* the ids and scores of the remembered call, and the documents returned
\* are those of the remembered call.
SameAnswer ==
  /\ (spc \in {"searched", "returned"} /\ SameCall)
       => /\ ids = earlier.ids
          /\ scores = earlier.scores
  /\ (spc = "returned" /\ SameCall) => documents = earlier.documents

DocIds == [i \in DOMAIN documents |-> documents[i].chunk_id]

\* The ids of the index search that have a row in the metadata store.
IdsWithRow == SelectSeq(ids, LAMBDA c : c \in db_ids)

\* C6: the chunk ids of the returned documents are, in the same order, the
\* ids of the index search result that have a row, whatever the order of
\* the rows the database returned.
C6_RankPreserved ==
  spc = "returned" => DocIds = IdsWithRow

\* A search returned two documents for two different ids.
C6_Witness ==
  /\ spc = "returned"
  /\ Len(documents) >= 2
  /\ documents[1].chunk_id > documents[2].chunk_id

\* C7: every returned document carries the score the index search returned
\* for its own chunk id.
C7_ScorePreserved ==
  spc = "returned"
    => \A j \in DOMAIN documents :
         \E i \in DOMAIN ids : /\ ids[i] = documents[j].chunk_id
                               /\ scores[i] = documents[j].similarity_score

C9_MissingNeverFails ==
  spc = "raised"
    => sexc \in {"EmbeddingError", "AssertionError", "OperationalError"}

\* A search returned normally although no id it found has a row.
C9_Witness ==
  /\ spc = "returned"
  /\ \E i \in DOMAIN ids : ids[i] \in Ids
  /\ \A i \in DOMAIN ids : ids[i] \notin db_ids
  /\ documents = <<>>

\* The number of vectors the store instance holds.
IndexSize == Len(readerObs.index.xb)

\* C21: search(query, k) returns at most k documents; when the index holds
\* n < k vectors and every id of the index has a metadata row, it returns
\* exactly n documents, one per vector of the index; and no document is
\* built for the placeholder id -1 of an unfilled position.
C21_ResultSize ==
  spc = "returned"
    => /\ Len(documents) <= k
       /\ (/\ IndexSize < k
            /\ Range(readerObs.index.id_map) \subseteq db_ids)
             => /\ Len(documents) = IndexSize
                /\ \A id \in Range(readerObs.index.id_map) :
                     Cardinality({j \in DOMAIN documents :
                                    documents[j].chunk_id = id})
                       = Cardinality({i \in DOMAIN readerObs.index.id_map :
                                        readerObs.index.id_map[i] = id})
       /\ \A j \in DOMAIN documents : documents[j].chunk_id # 0 - 1

\* A search with k above the size of a non-empty index, all of whose ids
\* have rows, returned: the index search padded its result with -1.
C21_Witness ==
  /\ spc = "returned"
  /\ IndexSize >= 1
  /\ IndexSize < k
  /\ Range(readerObs.index.id_map) \subseteq db_ids
  /\ \E i \in DOMAIN ids : ids[i] = 0 - 1
  /\ Len(documents) = IndexSize

\* The embedding request of the current call failed.
EmbeddingFailed == sfail \in EmbedFailures

\* C25: a call of search sends at most one request to the embedding
\* service, and when that request fails (connection error, timeout, error
\* status, or a response without embeddings) the call raises: no index
\* search was made and no metadata query was sent.
C25_EmbeddingFailureStops ==
  /\ posts <= 1
  /\ spc # "idle" => posts = 1
  /\ EmbeddingFailed
       => /\ spc = "raised"
          /\ sexc = "EmbeddingError"
          /\ scores = <<>>
          /\ ids = <<>>
          /\ queries = 0
          /\ documents = <<>>

\* A call ended by the error status of the embedding server, on a store
\* whose index is not empty.
C25_Witness ==
  /\ spc = "raised"
  /\ sfail = "HTTPError"
  /\ posts = 1
  /\ IndexSize >= 1

\* C26: a call of search sends at most one query to the metadata store,
\* for all the ids of the index search at once; it sends none when the id
\* list is empty, and one whatever k and the number of hits are otherwise.
C26_OneBatchedLookup ==
  /\ queries <= 1
  /\ spc \in {"idle", "embedded", "searched"} => queries = 0
  /\ spc = "returned" => queries = (IF ids = <<>> THEN 0 ELSE 1)
  /\ (spc = "raised" /\ sexc = "OperationalError") => queries = 1

\* A search with the largest k, two hits of which have a row, returned
\* after one query.
C26_Witness ==
  /\ spc = "returned"
  /\ k = MaxK
  /\ Len(documents) >= 2
  /\ queries = 1

\* C18: an index search is made only with an embedding whose L2 norm, as
\* the embedding service returned it, is 1.
C18_NormChecked ==
  spc \in {"searched", "returned"} => Norm(reply) = 1

\* ------------------------------------------------------------------------
\* FAISSVectorStore.__init__ and __del__
\* ------------------------------------------------------------------------
\* No file at faiss_index_path.
NoFile == MkFile(FALSE, NoIndex)

\* A constructor that opens the database connection before it loads the
\* index.
ConstructConnectFirst(f, dim, dbUp) ==
  LET c == IF dbUp THEN "open" ELSE "none"
  IN IF ~dbUp THEN MkStore("failed", "OperationalError", c, dim)
     ELSE IF f = NoFile THEN MkStore("failed", "FileNotFoundError", c, dim)
     ELSE IF ~ReadOk(f) THEN MkStore("failed", "ReadError", c, dim)
     ELSE IF f.index.d # dim THEN MkStore("failed", "ValueError", c, dim)
     ELSE MkStore("ready", "", c, dim)

\* Lines 62-90: the file must exist (68-73), must load (76) and must have
\* dimension embedding_dim (78-81); only then is the database connection
\* opened (86-87, 92-99).
Construct(f, dim, dbUp) ==
  IF f = NoFile THEN MkStore("failed", "FileNotFoundError", "none", dim)
  ELSE IF ~ReadOk(f) THEN MkStore("failed", "ReadError", "none", dim)
  ELSE IF f.index.d # dim THEN MkStore("failed", "ValueError", "none", dim)
  ELSE IF ~dbUp THEN MkStore("failed", "OperationalError", "none", dim)
  ELSE MkStore("ready", "", "open", dim)

\* The artifacts a store may be constructed from: none, a truncated one, and
\* indexes of dimension IndexDim or IndexDim + 1.
LoadFiles ==
  {NoFile, MkFile(FALSE, EmptyIndex)}
  \cup {MkFile(TRUE, MkIndex("IDMap", d, SortedSeq(S),
                             [i \in 1..Cardinality(S) |->
                                [j \in 1..d |-> IF j = 1 THEN SortedSeq(S)[i]
                                                ELSE 0]])) :
          S \in SUBSET Ids, d \in {IndexDim, IndexDim + 1}}

InitStore ==
  /\ file \in LoadFiles
  /\ db_ids \in SUBSET Ids
  /\ vs \in {MkStore("new", "", "none", d) : d \in {IndexDim, IndexDim + 1}}
  /\ embedding_vectors = <<>>
  /\ pc = "start"
  /\ conn = "none"
  /\ cursors = 0
  /\ missing_ids = {}
  /\ results = <<>>
  /\ index = NoIndex
  /\ inserted = 0
  /\ outcome = Running
  /\ run = 1
  /\ fileAtStart = file
  /\ prev = NoPrev
  /\ readerObs = NoObs
  /\ SearchIdle
  /\ OthersIdle
  /\ EmbedIdle

\* FAISSVectorStore(faiss_index_path, embedding_server_url, database_url,
\* embedding_dim)
vs_init ==
  /\ vs.state = "new"
  /\ \E dbUp \in BOOLEAN :
       /\ vs' = Construct(file, vs.embedding_dim, dbUp)
       /\ readerObs' = IF vs'.state = "ready"
                       THEN [loaded |-> TRUE, ok |-> TRUE,
                             index |-> file.index]
                       ELSE readerObs
  /\ UNCHANGED jobVars
  /\ UNCHANGED searchVars
  /\ UNCHANGED embedVars
  /\ UNCHANGED otherVars

\* Lines 344-350: __del__, which Python also runs on an object whose
\* __init__ raised.
vs_del ==
  /\ vs.state \in {"ready", "failed"}
  /\ vs' = MkStore("deleted", vs.exc,
                   IF vs.conn = "open" THEN "closed" ELSE vs.conn,
                   vs.embedding_dim)
  /\ UNCHANGED readerObs
  /\ UNCHANGED jobVars
  /\ UNCHANGED searchVars
  /\ UNCHANGED embedVars
  /\ UNCHANGED otherVars

NextStore ==
  \/ vs_init
  \/ vs_del

SpecStore == InitStore /\ [][NextStore]_vars

\* C19: a construction from a path without file, or from an artifact whose
\* dimension is not embedding_dim, raises: the store is not usable, holds no
\* index, and no database connection was opened for it.
C19_LoadTimeDimensionCheck ==
  (vs.state # "new"
     /\ (file = NoFile \/ (file.complete /\ file.index.d # vs.embedding_dim)))
    => /\ vs.state \in {"failed", "deleted"}
       /\ vs.exc \in {"FileNotFoundError", "ValueError"}
       /\ vs.conn = "none"
       /\ readerObs = NoObs

\* A construction refused for the dimension of a complete artifact, the
\* database being reachable or not.
C19_Witness ==
  /\ vs.state = "failed"
  /\ vs.exc = "ValueError"
  /\ file.complete
  /\ file.index.d # vs.embedding_dim
  /\ file.index.id_map # <<>>

\* ------------------------------------------------------------------------
\* POST /embed: the client of the retrieval path and the two servers
\* ------------------------------------------------------------------------
MaxTexts == 3       \* texts in one request

MAX_BATCH == 2      \* BATCH_MAX of embedding_server/main.py (128 by default)

QueryPrefix == "Represent this sentence for searching relevant passages: "

Words == {"a", "b"}

\* A text is the sequence of its parts: an optional prefix and a word.
TextValues == {<<w>> : w \in Words}

WordAxis(w) == IF w = "a" THEN 1 ELSE 2

\* A server that puts the template before every text.
PrefixedAlways(texts, is_query) ==
  [i \in DOMAIN texts |-> <<QueryPrefix>> \o texts[i]]

\* embedding_server/main.py lines 45-49, backend/main.py lines 35-39.
Prefixed(texts, is_query) ==
  IF is_query
  THEN [i \in DOMAIN texts |-> <<QueryPrefix>> \o texts[i]]
  ELSE texts

\* Tokenizer, model and mean pooling (lines 52-57): some vector that depends
\* on the whole text, the prefix included.
Encode(text) ==
  LET sgn == IF Head(text) = QueryPrefix THEN 0 - 2 ELSE 2
  IN [j \in 1..IndexDim |->
        IF j = WordAxis(text[Len(text)]) THEN sgn ELSE 0]

\* compute_embeddings / embed: prefix, encode, L2-normalize (lines 43-63).
compute_embeddings(texts, is_query) ==
  LET t == Prefixed(texts, is_query)
  IN [i \in DOMAIN t |-> normalize_L2(Encode(t[i]))]

\* The request model of both servers: `texts` is required, other keys are
\* ignored, is_query defaults to False.
HasTexts(body) == "texts" \in DOMAIN body
IsQuery(body) == "is_query" \in DOMAIN body /\ body.is_query

\* A handler without the batch limit.
embed_status_no_limit(texts) ==
  IF texts = <<>> THEN 400 ELSE 200

\* embedding_server/main.py lines 69-75.
embed_status(texts) ==
  IF texts = <<>> THEN 400
  ELSE IF Len(texts) > MAX_BATCH THEN 413
  ELSE 200

MkResponse(status, body, fed) ==
  [status |-> status, body |-> body, embedded |-> fed]

\* embedding_server/main.py lines 67-94.
EmbeddingServerEmbed(body) ==
  IF ~HasTexts(body) THEN MkResponse(422, NoBody, <<>>)
  ELSE IF embed_status(body.texts) # 200
  THEN MkResponse(embed_status(body.texts), NoBody, <<>>)
  ELSE LET vectors == compute_embeddings(body.texts, IsQuery(body))
       IN MkResponse(200,
            [batch_size |-> Len(body.texts),
             dim |-> IndexDim,
             responses |-> [i \in DOMAIN vectors |->
                              [embedding |-> [values |-> vectors[i]]]]],
            Prefixed(body.texts, IsQuery(body)))

\* backend/main.py lines 54-57; the tokenizer raises on an empty batch.
BackendEmbed(body) ==
  IF ~HasTexts(body) THEN MkResponse(422, NoBody, <<>>)
  ELSE IF body.texts = <<>> THEN MkResponse(500, NoBody, <<>>)
  ELSE LET vectors == compute_embeddings(body.texts, IsQuery(body))
       IN MkResponse(200,
            [dim |-> IndexDim, embeddings |-> vectors],
            Prefixed(body.texts, IsQuery(body)))

\* vectorstore.py lines 117-120: the payload of _get_query_embedding.
QueryPayload(query) ==
  [requests |-> <<[content |-> [parts |-> <<[text |-> query]>>]]>>,
   is_query |-> TRUE]

\* vectorstore.py lines 123-142: raise_for_status, the shape test, the
\* normalization.
ParseReply(resp) ==
  IF resp.status >= 400
  THEN [kind |-> "raised", exc |-> "HTTPError", vec |-> <<>>]
  ELSE IF "responses" \notin DOMAIN resp.body
  THEN [kind |-> "raised", exc |-> "ValueError", vec |-> <<>>]
  ELSE IF resp.body.responses = <<>>
  THEN [kind |-> "raised", exc |-> "ValueError", vec |-> <<>>]
  ELSE [kind |-> "ok", exc |-> "",
        vec |-> normalize_L2(resp.body.responses[1].embedding.values)]

\* The bodies a caller that follows the request model may send.
TextBodies ==
  {[texts |-> t, is_query |-> q] :
     t \in SeqUpTo(TextValues, MaxTexts), q \in BOOLEAN}
  \cup {[texts |-> t] : t \in SeqUpTo(TextValues, MaxTexts)}

InitEmbed ==
  /\ eserver \in {"embedding_server", "backend"}
  /\ epc = "idle"
  /\ eclient = ""
  /\ ebody = NoBody
  /\ embedded = <<>>
  /\ eresp = NoResponse
  /\ eresult = NoResult
  /\ file = MkFile(TRUE, EmptyIndex)
  /\ db_ids = {}
  /\ embedding_vectors = <<>>
  /\ pc = "start"
  /\ conn = "none"
  /\ cursors = 0
  /\ missing_ids = {}
  /\ results = <<>>
  /\ index = NoIndex
  /\ inserted = 0
  /\ outcome = Running
  /\ run = 1
  /\ fileAtStart = file
  /\ prev = NoPrev
  /\ readerObs = NoObs
  /\ SearchIdle
  /\ OthersIdle
  /\ StoreIdle

\* _get_query_embedding posts its payload.
post_query ==
  /\ epc = "idle"
  /\ \E q \in TextValues : ebody' = QueryPayload(q)
  /\ eclient' = "retrieval"
  /\ epc' = "posted"
  /\ UNCHANGED <<eserver, embedded, eresp, eresult>>
  /\ UNCHANGED jobVars
  /\ UNCHANGED readerObs
  /\ UNCHANGED searchVars
  /\ UNCHANGED storeVars
  /\ UNCHANGED otherVars

\* Another caller posts a list of texts.
post_texts ==
  /\ epc = "idle"
  /\ ebody' \in TextBodies
  /\ eclient' = "other"
  /\ epc' = "posted"
  /\ UNCHANGED <<eserver, embedded, eresp, eresult>>
  /\ UNCHANGED jobVars
  /\ UNCHANGED readerObs
  /\ UNCHANGED searchVars
  /\ UNCHANGED storeVars
  /\ UNCHANGED otherVars

\* The handler of POST /embed of the server that is deployed.
serve_embed ==
  /\ epc = "posted"
  /\ LET r == IF eserver = "embedding_server"
              THEN EmbeddingServerEmbed(ebody)
              ELSE BackendEmbed(ebody)
     IN /\ eresp' = [status |-> r.status, body |-> r.body]
        /\ embedded' = r.embedded
  /\ epc' = "answered"
  /\ UNCHANGED <<eclient, ebody, eserver, eresult>>
  /\ UNCHANGED jobVars
  /\ UNCHANGED readerObs
  /\ UNCHANGED searchVars
  /\ UNCHANGED storeVars
  /\ UNCHANGED otherVars

\* The client reads the response.
receive_reply ==
  /\ epc = "answered"
  /\ eresult' = ParseReply(eresp)
  /\ epc' = "done"
  /\ UNCHANGED <<eclient, ebody, eserver, embedded, eresp>>
  /\ UNCHANGED jobVars
  /\ UNCHANGED readerObs
  /\ UNCHANGED searchVars
  /\ UNCHANGED storeVars
  /\ UNCHANGED otherVars

NextEmbed ==
  \/ post_query
  \/ post_texts
  \/ serve_embed
  \/ receive_reply

SpecEmbed == InitEmbed /\ [][NextEmbed]_vars

\* C15: with a healthy server of either implementation, the request of
\* _get_query_embedding is accepted and its response yields an embedding.
C15_ProtocolCompatible ==
  (eclient = "retrieval" /\ epc = "done")
    => /\ eresp.status = 200
       /\ eresult.kind = "ok"

Served == epc \in {"answered", "done"}

\* C16: the server puts the template before every text of a request iff
\* is_query is true, and embeds the texts as they are when it is false or
\* left out; the request of the retrieval path has is_query true.
C16_QueryTagging ==
  /\ (Served /\ eresp.status = 200)
       => /\ Len(embedded) = Len(ebody.texts)
          /\ \A i \in DOMAIN embedded :
               IF "is_query" \in DOMAIN ebody /\ ebody.is_query = TRUE
               THEN embedded[i] = <<QueryPrefix>> \o ebody.texts[i]
               ELSE embedded[i] = ebody.texts[i]
  /\ eclient = "retrieval"
       => ("is_query" \in DOMAIN ebody /\ ebody.is_query = TRUE)

\* A served request of two different texts with is_query true: both were
\* embedded with the template in front.
C16_Witness ==
  /\ Served
  /\ eresp.status = 200
  /\ "is_query" \in DOMAIN ebody
  /\ ebody.is_query = TRUE
  /\ Len(embedded) = 2
  /\ ebody.texts[1] # ebody.texts[2]
  /\ embedded[1][1] = QueryPrefix
  /\ embedded[2][1] = QueryPrefix

\* The vectors a response carries, in the order of the response.
ReturnedVectors ==
  IF "responses" \in DOMAIN eresp.body
  THEN [i \in DOMAIN eresp.body.responses |->
          eresp.body.responses[i].embedding.values]
  ELSE eresp.body.embeddings

\* C17: a request without texts, or with more texts than the configured
\* maximum of the server that has one, is answered with an error and nothing
\* is embedded; no answer embeds a part of the texts; a successful answer
\* carries one embedding per text, the i-th for the i-th text.
C17_BatchLimitFailFast ==
  (Served /\ "texts" \in DOMAIN ebody)
    => /\ (\/ ebody.texts = <<>>
           \/ eserver = "embedding_server" /\ Len(ebody.texts) > MAX_BATCH)
            => eresp.status >= 400
       /\ eresp.status # 200 => embedded = <<>>
       /\ eresp.status = 200
            => /\ Len(embedded) = Len(ebody.texts)
               /\ Len(ReturnedVectors) = Len(ebody.texts)
               /\ \A i \in DOMAIN ebody.texts :
                    /\ embedded[i][Len(embedded[i])] = ebody.texts[i][1]
                    /\ ReturnedVectors[i] = normalize_L2(Encode(embedded[i]))

\* A request with more texts than the maximum, refused with status 413.
C17_Witness ==
  /\ Served
  /\ eserver = "embedding_server"
  /\ "texts" \in DOMAIN ebody
  /\ Len(ebody.texts) > MAX_BATCH
  /\ eresp.status = 413
  /\ embedded = <<>>

\* ------------------------------------------------------------------------
\* A reconciliation run beside a running retrieval instance
\* ------------------------------------------------------------------------
\* Tables with exactly one row, of the dimension of the index, for every id.
FullTables ==
  {t \in Tables :
     \A id \in Ids :
        /\ Cardinality({i \in DOMAIN t : t[i].chunk_id = id}) = 1
        /\ \A i \in DOMAIN t :
             Len(parse_pgvector(t[i].embedding)) = IndexDim}

\* A FAISSVectorStore was constructed from the artifact (its index is
\* readerObs.index) before the run starts; every chunk has a vector row.
InitHotSwap ==
  /\ file \in InitFiles
  /\ db_ids = Ids
  /\ embedding_vectors \in FullTables
  /\ pc = "start"
  /\ conn = "none"
  /\ cursors = 0
  /\ missing_ids = {}
  /\ results = <<>>
  /\ index = NoIndex
  /\ inserted = 0
  /\ outcome = Running
  /\ run = 1
  /\ fileAtStart = file
  /\ prev = NoPrev
  /\ readerObs = [loaded |-> TRUE, ok |-> TRUE, index |-> file.index]
  /\ SearchIdle
  /\ OthersIdle
  /\ vs = MkStore("ready", "", "open", IndexDim)
  /\ EmbedIdle

NextHotSwap ==
  \/ connet_to_db
  \/ detect_missing_faiss_ids
  \/ get_vectors_for_ids
  \/ print_first_result
  \/ insert_build
  \/ write_index_open
  \/ write_index_finish
  \/ close_conn
  \/ search_embed
  \/ search_index
  \/ search_fetch
  \/ search_done

SpecHotSwap == InitHotSwap /\ [][NextHotSwap]_vars

\* The ids the run has persisted and the artifact had not before.
NewlyPersisted ==
  IF file.complete THEN IndexIds(file) \ IndexIds(fileAtStart) ELSE {}

\* No id the run persisted is in the result of a search.
NoNewIdReturned ==
  spc \in {"searched", "returned"}
    => /\ \A i \in DOMAIN ids : ids[i] \notin NewlyPersisted
       /\ \A j \in DOMAIN documents :
            documents[j].chunk_id \notin NewlyPersisted

\* C27: the index of a FAISSVectorStore instance is the one loaded at its
\* construction: no step of a reconciliation run changes it, and no search
\* through the instance returns an id the run persisted, the instance not
\* having been constructed anew.
C27_NoHotSwap ==
  /\ []NoNewIdReturned
  /\ [][readerObs' = readerObs]_vars

\* After a run persisted new ids, a search that asked for more hits than
\* the instance holds returned a document for every vector it holds.
C27_Witness ==
  /\ pc = "done"
  /\ NewlyPersisted # {}
  /\ spc = "returned"
  /\ IndexSize >= 1
  /\ k > IndexSize
  /\ Len(documents) = IndexSize

\* ------------------------------------------------------------------------
\* Two processes running main on the same artifact and store
\* ------------------------------------------------------------------------
\* The second process ends with an exception.
OtherRaise(exc) == [other EXCEPT !.pc = "raised", !.exc = exc]

\* Lines 101-103 in the second process.
other_detect ==
  /\ other.pc = "start"
  /\ other' =
       IF ~ReadOk(file) THEN OtherRaise("ReadError")
       ELSE IF file.index.kind # "IDMap" THEN OtherRaise("RuntimeError")
       ELSE LET m == DiffIds(db_ids, Range(file.index.id_map))
            IN [other EXCEPT !.missing_ids = m,
                             !.pc = IF m # {} THEN "fetch" ELSE "done"]
  /\ UNCHANGED <<jobVars, readerObs, searchVars, storeVars, embedVars,
                 legacyVars, retrVars>>

\* Lines 104-105 in the second process.
other_fetch ==
  /\ other.pc = "fetch"
  /\ \E res \in Perms(SelectVectors(embedding_vectors, other.missing_ids)) :
       other' = IF res = <<>> THEN OtherRaise("IndexError")
                ELSE [other EXCEPT !.results = res, !.pc = "insert"]
  /\ UNCHANGED <<jobVars, readerObs, searchVars, storeVars, embedVars,
                 legacyVars, retrVars>>

\* Lines 69-91 in the second process.
other_insert_build ==
  /\ other.pc = "insert"
  /\ other' =
       IF ~ReadOk(file) THEN OtherRaise("ReadError")
       ELSE LET loaded == WrapIDMap(file.index)
            IN IF DimMismatch(other.results, other.missing_ids, loaded.d)
               THEN OtherRaise("ValueError")
               ELSE [other EXCEPT
                       !.index = add_with_ids(
                                   loaded,
                                   BatchVectors(other.results,
                                                other.missing_ids),
                                   BatchIds(other.results,
                                            other.missing_ids)),
                       !.pc = "write"]
  /\ UNCHANGED <<jobVars, readerObs, searchVars, storeVars, embedVars,
                 legacyVars, retrVars>>

\* Line 93 in the second process, first half: the file is opened for
\* writing and so truncated.
other_write_open ==
  /\ other.pc = "write"
  /\ file' = MkFile(FALSE, EmptyIndex)
  /\ other' = [other EXCEPT !.pc = "writing"]
  /\ UNCHANGED <<db_ids, embedding_vectors, pc, conn, cursors, missing_ids,
                 results, index, inserted, outcome, run, fileAtStart, prev>>
  /\ UNCHANGED <<readerObs, searchVars, storeVars, embedVars, legacyVars,
                 retrVars>>

\* Line 93 in the second process, second half, and line 108.
other_write_finish ==
  /\ other.pc = "writing"
  /\ \E done \in BOOLEAN :
       IF done
       THEN /\ file' = MkFile(TRUE, other.index)
            /\ other' = [other EXCEPT !.pc = "done"]
       ELSE /\ other' = OtherRaise("WriteError")
            /\ UNCHANGED file
  /\ UNCHANGED <<db_ids, embedding_vectors, pc, conn, cursors, missing_ids,
                 results, index, inserted, outcome, run, fileAtStart, prev>>
  /\ UNCHANGED <<readerObs, searchVars, storeVars, embedVars, legacyVars,
                 retrVars>>

\* Both processes are about to start; every chunk has one vector row of
\* the dimension of the index.
InitOverlap ==
  /\ file \in InitFiles
  /\ db_ids \in SUBSET Ids
  /\ embedding_vectors \in FullTables
  /\ pc = "start"
  /\ conn = "none"
  /\ cursors = 0
  /\ missing_ids = {}
  /\ results = <<>>
  /\ index = NoIndex
  /\ inserted = 0
  /\ outcome = Running
  /\ run = 1
  /\ fileAtStart = file
  /\ prev = NoPrev
  /\ readerObs = NoObs
  /\ SearchIdle
  /\ OthersIdle
  /\ StoreIdle
  /\ EmbedIdle

NextOverlap ==
  \/ connet_to_db
  \/ detect_missing_faiss_ids
  \/ get_vectors_for_ids
  \/ print_first_result
  \/ insert_build
  \/ write_index_open
  \/ write_index_finish
  \/ close_conn
  \/ other_detect
  \/ other_fetch
  \/ other_insert_build
  \/ other_write_open
  \/ other_write_finish

SpecOverlap == InitOverlap /\ [][NextOverlap]_vars

\* C30: in every interleaving of two runs, an id that a run has persisted
\* (an id of the artifact that was not in it before the runs) is an id of
\* the artifact at every later moment.
C30_PersistedMonotonic ==
  [][(IndexIds(file) \ IndexIds(fileAtStart)) \subseteq IndexIds(file')]_vars

\* ------------------------------------------------------------------------
\* The legacy class VectorStore
\* ------------------------------------------------------------------------
MaxCalls == 3       \* calls of create_retriever on one object

\* The search_kwargs a caller passes to create_retriever.
KwArgs == {KwNone, KwDict(0), KwDict(1), KwDict(2)}

\* A create_retriever that builds the retriever only if there is none yet.
CreateRetrieverOnce(obj, n, how, kw) ==
  IF how = "from_documents" THEN obj
  ELSE IF how = "as_retriever" \/ obj.retriever # NoRetriever
  THEN [obj EXCEPT !.vectorstore = n]
  ELSE [vectorstore |-> n,
        retriever |-> [built_by |-> n,
                       search_kwargs |-> IF kw = KwNone THEN KwDict(4)
                                         ELSE kw]]

\* Where a create_retriever call raises, if it does.
CreateOutcomes == {"ok", "from_documents", "as_retriever"}

\* Lines 427-432 for the n-th call: if from_documents raises, nothing is
\* assigned; if as_retriever raises, only the vector store is replaced;
\* else the new vector store and a retriever on it replace the old ones,
\* with {"k": 4} for search_kwargs = None.
CreateRetriever(obj, n, how, kw) ==
  IF how = "from_documents" THEN obj
  ELSE IF how = "as_retriever" THEN [obj EXCEPT !.vectorstore = n]
  ELSE [vectorstore |-> n,
        retriever |-> [built_by |-> n,
                       search_kwargs |-> IF kw = KwNone THEN KwDict(4)
                                         ELSE kw]]

Returned(op, value) ==
  [op |-> op, kind |-> "returned", exc |-> "", msg |-> "", value |-> value]

CallRaised(op, exc, msg) ==
  [op |-> op, kind |-> "raised", exc |-> exc, msg |-> msg,
   value |-> NoRetriever]

\* Lines 449 and 474.
NotInitialized ==
  [exc |-> "ValueError", msg |-> "VectorStore not initialized."]

InitLegacy ==
  /\ file = MkFile(TRUE, EmptyIndex)
  /\ db_ids = {}
  /\ embedding_vectors = <<>>
  /\ pc = "start"
  /\ conn = "none"
  /\ cursors = 0
  /\ missing_ids = {}
  /\ results = <<>>
  /\ index = NoIndex
  /\ inserted = 0
  /\ outcome = Running
  /\ run = 1
  /\ fileAtStart = file
  /\ prev = NoPrev
  /\ readerObs = NoObs
  /\ SearchIdle
  /\ OthersIdle
  /\ StoreIdle
  /\ EmbedIdle

\* VectorStore.create_retriever(documents, search_kwargs)
create_retriever ==
  /\ ncreate < MaxCalls
  /\ ncreate' = ncreate + 1
  /\ \E how \in CreateOutcomes, kw \in KwArgs :
       /\ legacy' = CreateRetriever(legacy, ncreate + 1, how, kw)
       /\ lastOk' = IF how = "ok" THEN ncreate + 1 ELSE lastOk
       /\ lres' = IF how = "ok"
                  THEN Returned("create_retriever", NoRetriever)
                  ELSE CallRaised("create_retriever", "Exception", "")
  /\ UNCHANGED jobVars
  /\ UNCHANGED readerObs
  /\ UNCHANGED searchVars
  /\ UNCHANGED storeVars
  /\ UNCHANGED retrVars
  /\ UNCHANGED overlapVars
  /\ UNCHANGED embedVars

\* VectorStore.get_retriever()
get_retriever_legacy ==
  /\ lres' = IF legacy.retriever = NoRetriever
             THEN CallRaised("get_retriever", NotInitialized.exc,
                             NotInitialized.msg)
             ELSE Returned("get_retriever", legacy.retriever)
  /\ UNCHANGED <<legacy, ncreate, lastOk>>
  /\ UNCHANGED jobVars
  /\ UNCHANGED readerObs
  /\ UNCHANGED searchVars
  /\ UNCHANGED storeVars
  /\ UNCHANGED retrVars
  /\ UNCHANGED overlapVars
  /\ UNCHANGED embedVars

\* VectorStore.retrieve(query, k): the value is the retriever that was
\* invoked; invoke itself may raise.
retrieve ==
  /\ \E up \in BOOLEAN :
       lres' = IF legacy.retriever = NoRetriever
               THEN CallRaised("retrieve", NotInitialized.exc,
                               NotInitialized.msg)
               ELSE IF up THEN Returned("retrieve", legacy.retriever)
               ELSE CallRaised("retrieve", "Exception", "")
  /\ UNCHANGED <<legacy, ncreate, lastOk>>
  /\ UNCHANGED jobVars
  /\ UNCHANGED readerObs
  /\ UNCHANGED searchVars
  /\ UNCHANGED storeVars
  /\ UNCHANGED retrVars
  /\ UNCHANGED overlapVars
  /\ UNCHANGED embedVars

NextLegacy ==
  \/ create_retriever
  \/ get_retriever_legacy
  \/ retrieve

SpecLegacy == InitLegacy /\ [][NextLegacy]_vars

\* What the last call answered, given whether a create_retriever call has
\* returned before it.
LegacyAnswer ==
  /\ (lres.op \in {"get_retriever", "retrieve"} /\ lastOk = 0)
       => /\ lres.kind = "raised"
          /\ lres.exc = "ValueError"
          /\ lres.msg = "VectorStore not initialized."
  /\ (lres.op = "get_retriever" /\ lastOk > 0)
       => /\ lres.kind = "returned"
          /\ lres.value.built_by = lastOk

\* C23: before the first create_retriever call that returned, every
\* get_retriever and retrieve raises ValueError("VectorStore not
\* initialized.") and leaves the object as it was; afterwards get_retriever
\* returns the retriever built by the most recent create_retriever call
\* that returned.
C23_LegacyInitProtocol ==
  /\ []LegacyAnswer
  /\ [][(lastOk = 0 /\ lres'.op \in {"get_retriever", "retrieve"})
          => legacy' = legacy]_vars

\* get_retriever returned the retriever of the second of two successful
\* create_retriever calls.
C23_Witness ==
  /\ lres.op = "get_retriever"
  /\ lres.kind = "returned"
  /\ lastOk >= 2
  /\ legacy.vectorstore = lastOk
  /\ lres.value.built_by = lastOk

\* ------------------------------------------------------------------------
\* FAISSVectorStore.get_retriever and FAISSRetriever
\* ------------------------------------------------------------------------
\* The search_kwargs callers pass to get_retriever: None, {}, {"k": n}.
RetrieverArgs == {KwNone, KwDict(0)} \cup {KwDict(n) : n \in 1..MaxK}

\* Python's truth value of a search_kwargs argument (line 340).
Truthy(kw) == kw.kind = "dict" /\ kw.k > 0

\* Line 373: self.search_kwargs.get("k", 4)
KOf(kw) == IF kw.kind = "dict" /\ kw.k > 0 THEN kw.k ELSE 4

InitRetriever ==
  /\ file = MkFile(TRUE, EmptyIndex)
  /\ db_ids = {}
  /\ embedding_vectors = <<>>
  /\ pc = "start"
  /\ conn = "none"
  /\ cursors = 0
  /\ missing_ids = {}
  /\ results = <<>>
  /\ index = NoIndex
  /\ inserted = 0
  /\ outcome = Running
  /\ run = 1
  /\ fileAtStart = file
  /\ prev = NoPrev
  /\ readerObs = [loaded |-> TRUE, ok |-> TRUE, index |-> EmptyIndex]
  /\ SearchIdle
  /\ OthersIdle
  /\ vs = MkStore("ready", "", "open", IndexDim)
  /\ EmbedIdle

\* Lines 326-342: a caller asks the store for a retriever; the store sets
\* the search_kwargs of its one retriever object if the argument is truthy
\* and returns that object.
get_retriever ==
  /\ \E c \in Callers, kw \in RetrieverArgs :
       /\ retriever' = IF Truthy(kw) THEN kw ELSE retriever
       /\ callers' = [callers EXCEPT ![c] =
                        [has |-> TRUE, asked |-> kw, used |-> 0]]
  /\ UNCHANGED legacyVars
  /\ UNCHANGED jobVars
  /\ UNCHANGED readerObs
  /\ UNCHANGED searchVars
  /\ UNCHANGED storeVars
  /\ UNCHANGED overlapVars
  /\ UNCHANGED embedVars

\* Lines 366-374: a caller retrieves through the retriever it was handed;
\* k is read from the search_kwargs of that object.
get_relevant_documents ==
  /\ \E c \in Callers :
       /\ callers[c].has
       /\ callers' = [callers EXCEPT ![c].used = KOf(retriever)]
  /\ UNCHANGED retriever
  /\ UNCHANGED legacyVars
  /\ UNCHANGED jobVars
  /\ UNCHANGED readerObs
  /\ UNCHANGED searchVars
  /\ UNCHANGED storeVars
  /\ UNCHANGED overlapVars
  /\ UNCHANGED embedVars

NextRetriever ==
  \/ get_retriever
  \/ get_relevant_documents

SpecRetriever == InitRetriever /\ [][NextRetriever]_vars

\* C28: a retrieval through a retriever obtained with search_kwargs
\* {"k": n} uses k = n, whatever other callers passed to get_retriever
\* afterwards.
C28_NoSettingLeak ==
  \A c \in Callers :
     (callers[c].used # 0 /\ Truthy(callers[c].asked))
       => callers[c].used = callers[c].asked.k

TypeOK ==
  /\ pc \in {"start", "detect", "fetch", "print", "insert", "write",
             "writing", "close", "done", "raised", "crashed"}
  /\ conn \in {"none", "open", "closed"}
  /\ missing_ids \subseteq Ids
  /\ run \in 1..MaxRuns

====
